---- MODULE Spec2Model ----
(***************************************************************************)
(* A model of push_data.py: NetworkDataExtract (construction from the      *)
(* environment, csv_to_json_convertor, insert_data_mongodb) and the        *)
(* __main__ entry point.  Strings that the code inspects character by       *)
(* character (the connection string) are sequences of characters; library   *)
(* exceptions are records carrying the name of their class.                 *)
(***************************************************************************)
EXTENDS Integers, Sequences, FiniteSets, TLC

VARIABLES
    env,        \* the process environment's MONGO_DB_URL
    file,       \* the CSV file on disk
    unique,     \* whether the target collection has a unique index on column k
    store,      \* the documents of the target collection, in insertion order
    instances,  \* the NetworkDataExtract objects constructed so far (their mongo_uri)
    loaded,     \* the caller's `records` variable: the last list csv_to_json_convertor returned
    cur,        \* the call in progress or last finished, with its position and outcome
    clients,    \* every MongoClient created so far
    mainpc,     \* position of the caller (the entry point, or an arbitrary API user)
    out         \* the lines printed to stdout

vars == <<env, file, unique, store, instances, loaded, cur, clients, mainpc, out>>

(***************************** bounds **************************************)
MaxRows == 2
MaxInstances == 2
MaxCalls == 2

(***************************** constants ***********************************)
ServerSelectionTimeoutMS == 15000

(*********************** the environment variable ***************************)
\* A string is a sequence of characters: "m" stands for a connection-string
\* scheme prefix (mongodb:// or mongodb+srv://), " " for a whitespace character.
RECURSIVE SeqsUpTo(_, _)
SeqsUpTo(S, n) ==
    IF n = 0 THEN {<<>>}
    ELSE LET shorter == SeqsUpTo(S, n - 1)
         IN shorter \cup {Append(s, x) : s \in {t \in shorter : Len(t) = n - 1}, x \in S}

\* os.environ["MONGO_DB_URL"]: unset, or a string (empty, whitespace only,
\* a URI, a URI with surrounding whitespace).
EnvValues ==
    {[set |-> FALSE, val |-> <<>>]} \cup
    {[set |-> TRUE, val |-> s] :
        s \in {<<>>, <<" ">>, <<" ", " ">>, <<"m">>, <<" ", "m">>, <<"m", " ">>}}

\* str.strip(): drop leading and trailing whitespace.
RECURSIVE LStrip(_)
LStrip(s) == IF s # <<>> /\ Head(s) = " " THEN LStrip(Tail(s)) ELSE s

RECURSIVE RStrip(_)
RStrip(s) == IF s # <<>> /\ s[Len(s)] = " " THEN RStrip(SubSeq(s, 1, Len(s) - 1)) ELSE s

Strip(s) == RStrip(LStrip(s))

(***************************** exceptions **********************************)
NoExc == [cls |-> "none"]

Raw(c) == [cls |-> c]

\* The immediate base class of each exception class that can occur.
Base(c) ==
    CASE c = "BulkWriteError" -> "OperationFailure"
      [] c = "OperationFailure" -> "PyMongoError"
      [] c = "ServerSelectionTimeoutError" -> "AutoReconnect"
      [] c = "AutoReconnect" -> "ConnectionFailure"
      [] c = "ConnectionFailure" -> "PyMongoError"
      [] c = "InvalidURI" -> "ConfigurationError"
      [] c = "ConfigurationError" -> "PyMongoError"
      [] c = "PyMongoError" -> "Exception"
      [] c = "FileNotFoundError" -> "Exception"
      [] c = "ParserError" -> "Exception"
      [] c = "TypeError" -> "Exception"
      [] c = "NetworkSecurityException" -> "Exception"
      [] c = "Exception" -> "BaseException"
      [] OTHER -> "BaseException"

RECURSIVE IsInstance(_, _)
IsInstance(c, k) ==
    \/ c = k
    \/ c # "BaseException" /\ IsInstance(Base(c), k)

\* NetworkSecurityException(error_message, sys): the single exception kind of
\* the repository; it carries what it was built from and, on the connectivity
\* path, the remediation hint the message is built with.
NetworkSecurityException(cause, hint) ==
    [cls |-> "NetworkSecurityException", cause |-> cause, hint |-> hint]

\* A faulty variant of WrapException: only the driver's exceptions are caught.
WrapPyMongoOnly(exc) ==
    IF IsInstance(exc.cls, "PyMongoError") THEN NetworkSecurityException(exc, FALSE) ELSE exc

\* The `except Exception as e: raise NetworkSecurityException(e, sys)` clause:
\* it catches what derives from Exception and lets anything else through.
WrapException(exc) ==
    IF IsInstance(exc.cls, "Exception") THEN NetworkSecurityException(exc, FALSE) ELSE exc

(************************ _require_env and __init__ ************************)
\* A faulty variant of RequireEnv: the whitespace test is left out.
RequireEnvNoStrip(e) ==
    IF ~e.set \/ e.val = <<>>
    THEN [ok |-> FALSE, val |-> <<>>,
          exc |-> NetworkSecurityException(Raw("str"), FALSE)]
    ELSE [ok |-> TRUE, val |-> e.val, exc |-> NoExc]

\* lines 20-24
RequireEnv(e) ==
    IF ~e.set \/ e.val = <<>> \/ Strip(e.val) = <<>>
    THEN [ok |-> FALSE, val |-> <<>>,
          exc |-> NetworkSecurityException(Raw("str"), FALSE)]
    ELSE [ok |-> TRUE, val |-> e.val, exc |-> NoExc]

NewNetworkDataExtract(e) ==
    LET r == RequireEnv(e)
    IN IF r.ok
       THEN [ok |-> TRUE, mongo_uri |-> r.val, exc |-> NoExc]
       ELSE [ok |-> FALSE, mongo_uri |-> <<>>, exc |-> WrapException(r.exc)]

(************************* csv_to_json_convertor ***************************)
\* The cells of the file are tokens; a row has the two columns k and v.
Tokens == {"", "NaN", "1", "a"}
KeyTokens == {"1", "2"}
ValTokens == {"", "x"}

Rows(K, V) == [k : K, v : V]

Files(K, V) ==
    {[kind |-> "missing", rows |-> <<>>], [kind |-> "unparsable", rows |-> <<>>]} \cup
    {[kind |-> "ok", rows |-> t] : t \in SeqsUpTo(Rows(K, V), MaxRows)}

Columns == {"k", "v"}

\* pandas' default na_values, restricted to the tokens in use.
IsNA(tok) == tok \in {"", "NaN", "NA", "nan", "null", "N/A"}

IsNumeric(tok) == tok \in {"1", "2"}

\* pd.read_csv: one frame row per file row; a column whose non-missing tokens
\* are all numeric is numeric (float64 when it holds a missing value, int64
\* otherwise), any other column keeps its tokens as strings; a missing token
\* becomes the float NaN.
ColNumeric(rows, c) == \A i \in 1..Len(rows) : IsNA(rows[i][c]) \/ IsNumeric(rows[i][c])

ColHasNA(rows, c) == \E i \in 1..Len(rows) : IsNA(rows[i][c])

ParseCell(rows, i, c) ==
    LET tok == rows[i][c]
    IN IF IsNA(tok) THEN [t |-> "float", v |-> "nan"]
       ELSE IF ColNumeric(rows, c)
            THEN [t |-> IF ColHasNA(rows, c) THEN "float" ELSE "int", v |-> tok]
            ELSE [t |-> "str", v |-> tok]

\* A frame is column-major: each column holds one cell per row.
ReadCsv(rows) ==
    [n |-> Len(rows),
     cols |-> [c \in Columns |-> [i \in 1..Len(rows) |-> ParseCell(rows, i, c)]]]

IsNaN(cell) == cell.t = "float" /\ cell.v = "nan"

PyNone == [t |-> "NoneType", v |-> "None"]

\* A faulty variant of ReplaceNaN: the result of replace is thrown away.
ReplaceNaNDiscarded(df) == df

\* df.replace({np.nan: None})
ReplaceNaN(df) ==
    [n |-> df.n,
     cols |-> [c \in Columns |->
                [i \in 1..df.n |-> IF IsNaN(df.cols[c][i]) THEN PyNone ELSE df.cols[c][i]]]]

\* df.to_dict(orient="records"): one mapping column -> value per row, in row order.
ToDictRecords(df) == [i \in 1..df.n |-> [c \in Columns |-> df.cols[c][i]]]

CsvToJsonConvertor(f) ==
    IF f.kind = "missing" THEN [ok |-> FALSE, recs |-> <<>>, exc |-> WrapException(Raw("FileNotFoundError"))]
    ELSE IF f.kind = "unparsable" THEN [ok |-> FALSE, recs |-> <<>>, exc |-> WrapException(Raw("ParserError"))]
    ELSE [ok |-> TRUE, recs |-> ToDictRecords(ReplaceNaN(ReadCsv(f.rows))), exc |-> NoExc]

(*************************** the document store ****************************)
Keys(docs) == {docs[i].k : i \in 1..Len(docs)}

\* The server's handling of an unordered bulk insert: every document is tried,
\* in order; one whose key is already present under a unique index is rejected
\* with a write error, and the others are stored.
RECURSIVE BulkInsert(_, _, _)
BulkInsert(docs, st, uniq) ==
    IF docs = <<>> THEN [store |-> st, nInserted |-> 0, nErrors |-> 0]
    ELSE LET d == Head(docs)
             dup == uniq /\ d.k \in Keys(st)
             rest == BulkInsert(Tail(docs), IF dup THEN st ELSE Append(st, d), uniq)
         IN [store |-> rest.store,
             nInserted |-> rest.nInserted + (IF dup THEN 0 ELSE 1),
             nErrors |-> rest.nErrors + (IF dup THEN 1 ELSE 0)]

(************************** get_mongo_client *******************************)
\* MongoClient(uri, ...) parses the URI eagerly: one that does not begin with
\* a scheme is refused with InvalidURI; nothing is sent to the server yet.
ValidUri(uri) == uri # <<>> /\ Head(uri) = "m"

NewClient(uri, call) ==
    [call |-> call, uri |-> uri, tls |-> TRUE,
     serverSelectionTimeoutMS |-> ServerSelectionTimeoutMS,
     pings |-> 0, pingok |-> FALSE, writes |-> 0, open |-> TRUE]

(************************** the call in progress ***************************)
\* n counts the insert_data_mongodb calls begun so far.
NoCall ==
    [op |-> "none", pc |-> "idle", inst |-> 0, recs |-> <<>>, client |-> 0,
     exc |-> NoExc, ret |-> -1, nInserted |-> -1, nErrors |-> -1, inserted |-> -1, n |-> 0]

Finished == cur.pc \in {"idle", "returned", "raised"}

\* What the server may answer to the ping, besides success.
PingFailures == {"ServerSelectionTimeoutError", "AutoReconnect", "OperationFailure"}

\* What the network may do to the bulk write, besides carrying it.
WriteFailures == {"ServerSelectionTimeoutError"}

(************************** insert_data_mongodb ****************************)
\* A faulty variant of GetMongoClient: a client made by an earlier call is reused.
GetMongoClientCached ==
    /\ cur.op = "insert" /\ cur.pc = "get_client"
    /\ IF ValidUri(instances[cur.inst])
       THEN IF clients # <<>>
            THEN /\ clients' = clients
                 /\ cur' = [cur EXCEPT !.pc = "ping", !.client = 1]
            ELSE /\ clients' = Append(clients, NewClient(instances[cur.inst], cur.n))
                 /\ cur' = [cur EXCEPT !.pc = "ping", !.client = Len(clients) + 1]
       ELSE /\ clients' = clients
            /\ cur' = [cur EXCEPT !.pc = "except", !.exc = Raw("InvalidURI")]
    /\ UNCHANGED <<env, file, unique, store, instances, loaded, mainpc, out>>

\* line 61: client = get_mongo_client(self.mongo_uri)
GetMongoClient ==
    /\ cur.op = "insert" /\ cur.pc = "get_client"
    /\ IF ValidUri(instances[cur.inst])
       THEN /\ clients' = Append(clients, NewClient(instances[cur.inst], cur.n))
            /\ cur' = [cur EXCEPT !.pc = "ping", !.client = Len(clients) + 1]
       ELSE /\ clients' = clients
            /\ cur' = [cur EXCEPT !.pc = "except", !.exc = Raw("InvalidURI")]
    /\ UNCHANGED <<env, file, unique, store, instances, loaded, mainpc, out>>

\* A faulty variant of Ping: a failed ping is swallowed and the call goes on.
PingIgnoringFailure ==
    /\ cur.op = "insert" /\ cur.pc = "ping"
    /\ \E answer \in {"ok"} \cup PingFailures :
          /\ clients' = [clients EXCEPT ![cur.client].pings = @ + 1,
                                        ![cur.client].pingok = (answer = "ok")]
          /\ cur' = [cur EXCEPT !.pc = "insert_many"]
    /\ UNCHANGED <<env, file, unique, store, instances, loaded, mainpc, out>>

Ping ==
    /\ cur.op = "insert" /\ cur.pc = "ping"
    /\ \E answer \in {"ok"} \cup PingFailures :
          /\ clients' = [clients EXCEPT ![cur.client].pings = @ + 1,
                                        ![cur.client].pingok = (answer = "ok")]
          /\ cur' = IF answer = "ok"
                    THEN [cur EXCEPT !.pc = "insert_many"]
                    ELSE [cur EXCEPT !.pc = "except", !.exc = Raw(answer)]
    /\ UNCHANGED <<env, file, unique, store, instances, loaded, mainpc, out>>

\* result.inserted_ids: one _id per submitted document.
InsertedIds(recs) == [i \in 1..Len(recs) |-> i]

\* A faulty variant of ReturnCount.
ReturnCountOffByOne(recs) == Len(InsertedIds(recs)) + 1

\* line 71: len(result.inserted_ids)
ReturnCount(recs) == Len(InsertedIds(recs))

\* lines 66-71: result = col.insert_many(records, ordered=False);
\* return len(result.inserted_ids)
InsertMany ==
    /\ cur.op = "insert" /\ cur.pc = "insert_many"
    /\ clients' = [clients EXCEPT ![cur.client].writes = @ + 1]
    /\ IF cur.recs = <<>>
       THEN \* insert_many refuses an empty list before sending anything
            /\ cur' = [cur EXCEPT !.pc = "except", !.exc = Raw("TypeError")]
            /\ store' = store
       ELSE \E net \in {"ok"} \cup WriteFailures :
              IF net # "ok"
              THEN /\ cur' = [cur EXCEPT !.pc = "except", !.exc = Raw(net)]
                   /\ store' = store
              ELSE LET r == BulkInsert(cur.recs, store, unique)
                   IN /\ store' = r.store
                      /\ cur' = IF r.nErrors = 0
                                THEN [cur EXCEPT !.pc = "returned", !.ret = ReturnCount(cur.recs),
                                                 !.nInserted = r.nInserted, !.nErrors = 0]
                                ELSE [cur EXCEPT !.pc = "except", !.exc = Raw("BulkWriteError"),
                                                 !.nInserted = r.nInserted,
                                                 !.nErrors = r.nErrors]
    /\ UNCHANGED <<env, file, unique, instances, loaded, mainpc, out>>

\* lines 73-77: except BulkWriteError as bwe
ExceptBulkWriteError ==
    /\ cur.op = "insert" /\ cur.pc = "except"
    /\ IsInstance(cur.exc.cls, "BulkWriteError")
    /\ cur' = [cur EXCEPT !.pc = "raised", !.inserted = cur.nErrors,
                          !.exc = NetworkSecurityException(cur.exc, FALSE)]
    /\ UNCHANGED <<env, file, unique, store, instances, loaded, clients, mainpc, out>>

\* A faulty variant of ExceptServerSelectionTimeoutError: the message is built
\* without the remediation hint.
ExceptServerSelectionTimeoutErrorNoHint ==
    /\ cur.op = "insert" /\ cur.pc = "except"
    /\ ~IsInstance(cur.exc.cls, "BulkWriteError")
    /\ IsInstance(cur.exc.cls, "ServerSelectionTimeoutError")
    /\ cur' = [cur EXCEPT !.pc = "raised", !.exc = NetworkSecurityException(cur.exc, FALSE)]
    /\ UNCHANGED <<env, file, unique, store, instances, loaded, clients, mainpc, out>>

\* A variant of ExceptServerSelectionTimeoutError that closes the client
\* before it raises.
ExceptServerSelectionTimeoutErrorClosing ==
    /\ cur.op = "insert" /\ cur.pc = "except"
    /\ ~IsInstance(cur.exc.cls, "BulkWriteError")
    /\ IsInstance(cur.exc.cls, "ServerSelectionTimeoutError")
    /\ cur' = [cur EXCEPT !.pc = "raised", !.exc = NetworkSecurityException(cur.exc, TRUE)]
    /\ clients' = [c \in 1..Len(clients) |->
                     IF c = cur.client THEN [clients[c] EXCEPT !.open = FALSE] ELSE clients[c]]
    /\ UNCHANGED <<env, file, unique, store, instances, loaded, mainpc, out>>

\* lines 79-85: except ServerSelectionTimeoutError as e
ExceptServerSelectionTimeoutError ==
    /\ cur.op = "insert" /\ cur.pc = "except"
    /\ ~IsInstance(cur.exc.cls, "BulkWriteError")
    /\ IsInstance(cur.exc.cls, "ServerSelectionTimeoutError")
    /\ cur' = [cur EXCEPT !.pc = "raised", !.exc = NetworkSecurityException(cur.exc, TRUE)]
    /\ UNCHANGED <<env, file, unique, store, instances, loaded, clients, mainpc, out>>

\* lines 87-88: except Exception as e
ExceptException ==
    /\ cur.op = "insert" /\ cur.pc = "except"
    /\ ~IsInstance(cur.exc.cls, "BulkWriteError")
    /\ ~IsInstance(cur.exc.cls, "ServerSelectionTimeoutError")
    /\ cur' = [cur EXCEPT !.pc = "raised", !.exc = WrapException(cur.exc)]
    /\ UNCHANGED <<env, file, unique, store, instances, loaded, clients, mainpc, out>>

(***************** the three operations, as a caller sees them *************)
\* extractor = NetworkDataExtract()
Construct ==
    LET r == NewNetworkDataExtract(env)
    IN /\ instances' = IF r.ok THEN Append(instances, r.mongo_uri) ELSE instances
       /\ cur' = [NoCall EXCEPT !.op = "init", !.pc = IF r.ok THEN "returned" ELSE "raised",
                                !.inst = IF r.ok THEN Len(instances) + 1 ELSE 0,
                                !.exc = r.exc, !.n = cur.n]
       /\ UNCHANGED <<env, file, unique, store, clients>>

\* records = extractor.csv_to_json_convertor(FILE_PATH)
Load(i) ==
    LET r == CsvToJsonConvertor(file)
    IN /\ loaded' = IF r.ok THEN [has |-> TRUE, recs |-> r.recs] ELSE loaded
       /\ cur' = [NoCall EXCEPT !.op = "load", !.pc = IF r.ok THEN "returned" ELSE "raised",
                                !.inst = i, !.recs = r.recs, !.exc = r.exc, !.n = cur.n]
       /\ UNCHANGED <<env, file, unique, store, instances, clients>>

\* extractor.insert_data_mongodb(records, DATABASE, COLLECTION): entering the call
EnterInsert(i) ==
    /\ cur' = [NoCall EXCEPT !.op = "insert", !.pc = "get_client", !.inst = i,
                             !.recs = loaded.recs, !.n = cur.n + 1]
    /\ UNCHANGED <<env, file, unique, store, instances, loaded, clients>>

(*********************** an arbitrary user of the class ********************)
ApiConstruct ==
    /\ mainpc = "api" /\ Finished
    /\ Len(instances) < MaxInstances
    /\ Construct
    /\ UNCHANGED <<loaded, mainpc, out>>

ApiLoad ==
    /\ mainpc = "api" /\ Finished
    /\ \E i \in 1..Len(instances) : Load(i)
    /\ UNCHANGED <<mainpc, out>>

ApiInsert ==
    /\ mainpc = "api" /\ Finished
    /\ loaded.has
    /\ cur.n < MaxCalls
    /\ \E i \in 1..Len(instances) : EnterInsert(i)
    /\ UNCHANGED <<mainpc, out>>

(****************************** __main__ ***********************************)
Line(kind, n) == [kind |-> kind, n |-> n]

\* line 96
MainConstruct ==
    /\ mainpc = "construct"
    /\ Construct
    /\ mainpc' = IF cur'.pc = "raised" THEN "except" ELSE "load"
    /\ UNCHANGED <<loaded, out>>

\* A faulty variant of MainLoad: a failed load does not leave the try body.
MainLoadNoPropagate ==
    /\ mainpc = "load"
    /\ Load(cur.inst)
    /\ mainpc' = "print_loaded"
    /\ UNCHANGED out

\* line 97
MainLoad ==
    /\ mainpc = "load"
    /\ Load(cur.inst)
    /\ mainpc' = IF cur'.pc = "raised" THEN "except" ELSE "print_loaded"
    /\ UNCHANGED out

\* line 98
MainPrintLoaded ==
    /\ mainpc = "print_loaded"
    /\ out' = Append(out, Line("loaded", Len(loaded.recs)))
    /\ mainpc' = "insert"
    /\ UNCHANGED <<env, file, unique, store, instances, loaded, cur, clients>>

\* line 99: the call is entered
MainInsert ==
    /\ mainpc = "insert"
    /\ EnterInsert(Len(instances))
    /\ mainpc' = "inserting"
    /\ UNCHANGED out

\* line 99: the call has ended
MainInsertEnded ==
    /\ mainpc = "inserting" /\ cur.op = "insert" /\ Finished
    /\ mainpc' = IF cur.pc = "raised" THEN "except" ELSE "print_inserted"
    /\ UNCHANGED <<env, file, unique, store, instances, loaded, cur, clients, out>>

\* line 100
MainPrintInserted ==
    /\ mainpc = "print_inserted"
    /\ out' = Append(out, Line("inserted", cur.ret))
    /\ mainpc' = "exit"
    /\ UNCHANGED <<env, file, unique, store, instances, loaded, cur, clients>>

\* lines 101-104: print(e); raise
MainExcept ==
    /\ mainpc = "except"
    /\ out' = Append(out, Line("error", -1))
    /\ mainpc' = "reraised"
    /\ UNCHANGED <<env, file, unique, store, instances, loaded, cur, clients>>

(**************************** specifications *******************************)
\* The documents the collection may hold before the program runs.
InitStores == {<<>>, <<[k |-> [t |-> "int", v |-> "1"], v |-> PyNone]>>}

InitCommon ==
    /\ env \in EnvValues
    /\ unique \in BOOLEAN
    /\ store \in InitStores
    /\ instances = <<>>
    /\ loaded = [has |-> FALSE, recs |-> <<>>]
    /\ cur = NoCall
    /\ clients = <<>>
    /\ out = <<>>

\* Any sequence of calls on one or several instances.
Init ==
    /\ InitCommon
    /\ file \in Files(KeyTokens, ValTokens)
    /\ mainpc = "api"

Next ==
    \/ ApiConstruct
    \/ ApiLoad
    \/ ApiInsert
    \/ GetMongoClient
    \/ Ping
    \/ InsertMany
    \/ ExceptBulkWriteError
    \/ ExceptServerSelectionTimeoutError
    \/ ExceptException

Spec == Init /\ [][Next]_vars

\* The entry point.
InitMain ==
    /\ InitCommon
    /\ file \in Files(KeyTokens, ValTokens)
    /\ mainpc = "construct"

NextMain ==
    \/ MainConstruct
    \/ MainLoad
    \/ MainPrintLoaded
    \/ MainInsert
    \/ GetMongoClient
    \/ Ping
    \/ InsertMany
    \/ ExceptBulkWriteError
    \/ ExceptServerSelectionTimeoutError
    \/ ExceptException
    \/ MainInsertEnded
    \/ MainPrintInserted
    \/ MainExcept

SpecMain == InitMain /\ [][NextMain]_vars

\* csv_to_json_convertor alone, on every file.
InitLoad ==
    /\ env = [set |-> TRUE, val |-> <<"m">>]
    /\ unique = FALSE
    /\ store = <<>>
    /\ instances = <<env.val>>
    /\ loaded = [has |-> FALSE, recs |-> <<>>]
    /\ cur = NoCall
    /\ clients = <<>>
    /\ out = <<>>
    /\ file \in Files(Tokens, Tokens)
    /\ mainpc = "api"

NextLoad == ApiLoad

SpecLoad == InitLoad /\ [][NextLoad]_vars

(******************************* properties ********************************)
InsertEnded == cur.op = "insert" /\ cur.pc \in {"returned", "raised"}

\* The connection string is absent, empty or made of whitespace only.
Blank(e) == ~e.set \/ \A j \in 1..Len(e.val) : e.val[j] = " "

IsNSE(exc) == exc.cls = "NetworkSecurityException"

\* The ping of the call that has a client was attempted and failed.
PingFailed == cur.op = "insert" /\ cur.client # 0 /\ clients[cur.client].pings > 0
              /\ ~clients[cur.client].pingok

\* C1: when the bulk write reports partial failures (some documents rejected,
\* the others stored), insert_data_mongodb returns the number of documents
\* persisted and raises nothing.
C1_PartialFailureReturnsCount ==
    (InsertEnded /\ cur.nErrors > 0) =>
        (cur.pc = "returned" /\ cur.ret = cur.nInserted)

\* C2: insert_many is invoked on a client only after the ping on that client
\* succeeded; a call whose client construction or ping failed invokes no bulk
\* write, and the store changes only in a call whose ping succeeded.
C2_WriteOnlyAfterPing ==
    /\ [](\A c \in 1..Len(clients) : clients[c].writes > 0 => clients[c].pingok)
    /\ []((cur.op = "insert" /\ cur.pc \in {"insert_many"}) =>
             (cur.client # 0 /\ clients[cur.client].pingok))
    /\ [][store' # store =>
             (cur.op = "insert" /\ cur.client # 0 /\ clients[cur.client].pingok)]_vars

C2_Witness ==
    /\ InsertEnded /\ cur.pc = "raised" /\ PingFailed
    /\ clients[cur.client].writes = 0
    /\ Len(clients) = 2 /\ clients[1].writes = 1 /\ clients[1].pingok

\* C3: a value returned by insert_data_mongodb is an integer between 0 and the
\* number of submitted records, and when the store accepted every document
\* the call returns exactly the number submitted.
C3_ReturnedCountBounded ==
    /\ (InsertEnded /\ cur.pc = "returned") =>
           (cur.ret \in 0..Len(cur.recs))
    /\ (InsertEnded /\ cur.nErrors = 0) =>
           (cur.pc = "returned" /\ cur.ret = Len(cur.recs) /\ cur.nInserted = Len(cur.recs))

C3_Witness ==
    InsertEnded /\ cur.pc = "returned" /\ cur.nErrors = 0 /\ cur.ret = MaxRows

\* C4: with MONGO_DB_URL absent, empty or whitespace-only, construction fails
\* with the repository's exception and nothing is connected; every instance
\* that exists holds a non-blank connection string, so does every insert.
C4_BlankEnvFailsConstruction ==
    /\ Blank(env) =>
          /\ instances = <<>> /\ clients = <<>> /\ store \in InitStores
          /\ cur.op \in {"none", "init"}
          /\ cur.op = "init" => (cur.pc = "raised" /\ IsNSE(cur.exc))
    /\ \A i \in 1..Len(instances) :
          ~Blank([set |-> TRUE, val |-> instances[i]])
    /\ cur.op = "insert" => ~Blank([set |-> TRUE, val |-> instances[cur.inst]])

C4_Witness ==
    /\ env = [set |-> TRUE, val |-> <<" ", " ">>]
    /\ cur.op = "init" /\ cur.pc = "raised"

\* C5 as stated: whenever the liveness check fails, whatever the kind of
\* failure, the call fails with the exception that carries the remediation
\* hint, and returns no count.
C5_AnyPingFailureCarriesHint ==
    (InsertEnded /\ PingFailed) =>
        (cur.pc = "raised" /\ IsNSE(cur.exc) /\ cur.exc.hint /\ cur.ret = -1)

\* C5 amended: whenever the liveness check fails the call raises the
\* repository's exception, returns no count and invokes no bulk write; the
\* exception carries the remediation hint exactly when the failure is a
\* ServerSelectionTimeoutError.
C5_PingFailureHintOnServerSelection ==
    (InsertEnded /\ PingFailed) =>
        /\ cur.pc = "raised" /\ IsNSE(cur.exc) /\ cur.ret = -1
        /\ clients[cur.client].writes = 0
        /\ cur.exc.hint = IsInstance(cur.exc.cause.cls, "ServerSelectionTimeoutError")

C5_Witness ==
    /\ InsertEnded /\ PingFailed
    /\ cur.exc.cause.cls = "ServerSelectionTimeoutError" /\ cur.exc.hint

\* The exception classes the libraries and the code raise inside each operation.
RaisedInside(op) ==
    CASE op = "init" -> {"NetworkSecurityException"}
      [] op = "load" -> {"FileNotFoundError", "ParserError"}
      [] op = "insert" -> {"InvalidURI", "TypeError", "BulkWriteError"} \cup PingFailures
                            \cup WriteFailures
      [] OTHER -> {}

\* C6: a failure of the constructor, csv_to_json_convertor or
\* insert_data_mongodb reaches the caller as NetworkSecurityException carrying
\* the exception raised inside the operation; no other exception escapes.
C6_OnlyNetworkSecurityExceptionEscapes ==
    cur.pc = "raised" =>
        /\ IsNSE(cur.exc)
        /\ cur.exc.cause.cls \in RaisedInside(cur.op)

C6_Witness ==
    /\ cur.op = "insert" /\ cur.pc = "raised"
    /\ cur.exc.cause.cls = "TypeError"

\* C7: csv_to_json_convertor returns one record per file row, in order; a
\* missing cell is None, never NaN nor the string "NaN"; any other cell keeps
\* the value it has in the file.
C7_MissingCellsAreNone ==
    (cur.op = "load" /\ cur.pc = "returned") =>
        /\ Len(cur.recs) = Len(file.rows)
        /\ \A i \in 1..Len(cur.recs) : \A c \in Columns :
              LET cell == cur.recs[i][c]
                  tok == file.rows[i][c]
              IN /\ ~(cell.t = "float" /\ cell.v = "nan")
                 /\ cell.v # "NaN"
                 /\ IF tok \in {"", "NaN"}
                    THEN cell = PyNone
                    ELSE cell.v = tok /\ cell.t \in {"int", "float", "str"}

C7_Witness ==
    /\ cur.op = "load" /\ cur.pc = "returned" /\ Len(cur.recs) = MaxRows
    /\ file.rows[1].k = "NaN" /\ file.rows[1].v = "1" /\ file.rows[2].v = ""
    /\ cur.recs[1].k = PyNone /\ cur.recs[1].v = [t |-> "float", v |-> "1"]

\* C8: the entry point constructs, loads, inserts, in that order, each step
\* only after the previous one succeeded; it prints the number loaded and
\* then the number inserted on success; on a failure it prints the error and
\* re-raises, runs no later step and prints no inserted count.
C8_EntryPointOrder ==
    /\ cur.op \in {"load", "insert"} => instances # <<>>
    /\ cur.op = "insert" =>
          (loaded.has /\ cur.recs = loaded.recs /\ out # <<>>
           /\ out[1] = Line("loaded", Len(loaded.recs)))
    /\ mainpc = "exit" =>
          (cur.op = "insert" /\ cur.pc = "returned"
           /\ out = <<Line("loaded", Len(loaded.recs)), Line("inserted", cur.ret)>>)
    /\ mainpc = "reraised" =>
          /\ cur.pc = "raised"
          /\ out[Len(out)] = Line("error", -1)
          /\ \A j \in 1..Len(out) : out[j].kind # "inserted"
          /\ cur.op = "init" => (out = <<Line("error", -1)>> /\ ~loaded.has /\ clients = <<>>)
          /\ cur.op = "load" => (out = <<Line("error", -1)>> /\ ~loaded.has /\ clients = <<>>)
          /\ cur.op = "insert" => out = <<Line("loaded", Len(loaded.recs)), Line("error", -1)>>
    /\ mainpc \in {"exit", "reraised"} \/ (\A j \in 1..Len(out) : out[j].kind = "loaded")
    /\ (clients # <<>> \/ store \notin InitStores) => cur.op = "insert"

C8_Witness ==
    /\ mainpc = "reraised" /\ cur.op = "load" /\ file.kind = "missing"

\* C9: every insert_data_mongodb call creates its own client, which serves at
\* most one ping and then at most one bulk write; no client serves two calls
\* and nothing is retried.
C9_OneClientPerCall ==
    /\ [](/\ Len(clients) <= cur.n
           /\ \A c \in 1..Len(clients) :
                 /\ clients[c].pings <= 1 /\ clients[c].writes <= 1
                 /\ clients[c].writes = 1 => clients[c].pings = 1
                 /\ \A d \in 1..Len(clients) : clients[c].call = clients[d].call => c = d
           /\ (cur.op = "insert" /\ cur.client # 0) => clients[cur.client].call = cur.n)
    /\ [][\A c \in 1..Len(clients) :
             clients'[c] # clients[c] => (cur.op = "insert" /\ clients[c].call = cur.n)]_vars

C9_Witness ==
    /\ Len(clients) = MaxCalls /\ Len(instances) = MaxInstances
    /\ \A c \in 1..Len(clients) : clients[c].pings = 1 /\ clients[c].writes = 1
    /\ InsertEnded

\* The calls of insert_data_mongodb that got past client construction.
PastConstruction ==
    IF instances # <<>> /\ ValidUri(instances[1])
    THEN cur.n - (IF cur.op = "insert" /\ cur.pc = "get_client" THEN 1 ELSE 0)
    ELSE 0

\* C10: no exit path of insert_data_mongodb closes the client the call made:
\* after k calls that got past client construction there are k clients, all
\* still open.
C10_ClientsNeverClosed ==
    /\ Len(clients) = PastConstruction
    /\ \A c \in 1..Len(clients) : clients[c].open

C10_Witness ==
    /\ Len(clients) = MaxCalls /\ InsertEnded
    /\ clients[1].pings = 1 /\ ~clients[1].pingok /\ clients[1].open
    /\ cur.pc = "returned" /\ clients[cur.client].open

====
